---- MODULE Spec2Model ----
(***************************************************************************)
(* A model of the streaming transformation pipeline of xml.go: the reader   *)
(* (decoder), the worker pool, the writer, and Start/main that tie them     *)
(* together through two unbuffered channels and a sync.WaitGroup.           *)
(*                                                                          *)
(* Text is a sequence of tokens.  "[" and "]" are single bytes, "x" is any  *)
(* other input byte, "y" is a byte the external script produces, and four   *)
(* tokens stand for the multi-byte literals the code matches as a whole:    *)
(*   "R" = #REDIRECT   "S" = <SPEC_START>   "E" = <SPEC_END>   "N" = &#xA;  *)
(***************************************************************************)
EXTENDS Integers, Sequences, FiniteSets, TLC

\* ---------------------------------------------------------------- bounds
MaxPages == 2
MaxWorkers == 2
MaxText == 3

\* ------------------------------------------------------------- text layer
REDIRECT == <<"R">>
SPEC_START == <<"S">>
SPEC_END == <<"E">>
LINK_OPEN == <<"[", "[">>
LINK_CLOSE == <<"]", "]">>
NEWLINE_ENTITY == <<"N">>

\* strings.HasPrefix
HasPrefix(s, prefix) ==
    /\ Len(s) >= Len(prefix)
    /\ SubSeq(s, 1, Len(prefix)) = prefix

\* strings.ReplaceAll: leftmost, non-overlapping occurrences of old, in one scan
RECURSIVE ReplaceAll(_, _, _)
ReplaceAll(s, old, new) ==
    IF Len(s) < Len(old) THEN s
    ELSE IF SubSeq(s, 1, Len(old)) = old
         THEN new \o ReplaceAll(SubSeq(s, Len(old) + 1, Len(s)), old, new)
         ELSE <<s[1]>> \o ReplaceAll(Tail(s), old, new)

\* lines 245-246: the link symbols are swapped for the placeholders
EscapeLinks(s) == ReplaceAll(ReplaceAll(s, LINK_OPEN, SPEC_START), LINK_CLOSE, SPEC_END)

\* The placeholders put back the wrong way round
RestoreLinksSwapped(s) == ReplaceAll(ReplaceAll(s, SPEC_START, LINK_CLOSE), SPEC_END, LINK_OPEN)
\* lines 262-263: the placeholders are swapped back
RestoreLinks(s) == ReplaceAll(ReplaceAll(s, SPEC_START, LINK_OPEN), SPEC_END, LINK_CLOSE)

RECURSIVE MapText(_, _)
MapText(s, f) == IF s = <<>> THEN <<>> ELSE f[s[1]] \o MapText(Tail(s), f)

Alphabet == {"[", "]", "x", "y", "R", "S", "E", "N"}

\* The external script (w.ParseScript), a function of its standard input.  Four
\* behaviours are enumerated: the identity, a rewriter of plain text, a cleaner
\* that deletes stray single brackets, and a script that deletes the placeholders.
Scripts == {"id", "rewrite", "clean", "eat"}
ScriptMap(script) ==
    [c \in Alphabet |->
        CASE script = "rewrite" /\ c = "x" -> <<"y">>
          [] script = "clean" /\ c \in {"[", "]"} -> <<>>
          [] script = "eat" /\ c \in {"S", "E"} -> <<>>
          [] OTHER -> <<c>>]
CombinedOutput(script, stdin) == MapText(stdin, ScriptMap(script))

\* ------------------------------------------------------------ record layer
\* Page: Title, Ns, ID, Redirect.Title, Revision.Sha1 and Revision.Text.Text.
\* The dump's sha1 is the checksum of the text the page came with.
Sha1Of(text) == <<"sha1", text>>
NoPage == [Title |-> "", Ns |-> "", ID |-> 0, Redirect |-> "", Sha1 |-> <<>>, Text |-> <<>>]

PageAt(k, title, text) ==
    [Title |-> title, Ns |-> "0", ID |-> k,
     Redirect |-> IF HasPrefix(text, REDIRECT) THEN "Cat" ELSE "",
     Sha1 |-> Sha1Of(text), Text |-> text]

\* The inputs of the pipeline runs: up to MaxPages pages, each one of
\*   Dog "Animal.&#xA;"   Cat "Hello [[World]]."
Catalog ==
    { [Title |-> "Dog", Text |-> <<"x", "N">>],
      [Title |-> "Cat", Text |-> <<"x", "[", "[", "x", "]", "]", "x">>] }
Inputs ==
    UNION { { [k \in 1..n |-> PageAt(k, c[k].Title, c[k].Text)] : c \in [1..n -> Catalog] } :
              n \in 0..MaxPages }

\* The inputs of the single-page runs: one page with any text of up to MaxText
\* tokens
TextAlphabet == {"[", "]", "x", "R", "S"}
Texts == UNION { [1..n -> TextAlphabet] : n \in 0..MaxText }
TextInputs == { <<PageAt(1, "Dog", t)>> : t \in Texts }

\* The inputs of the long runs: one page more than MaxPages, so that a single
\* worker leaves pages waiting at every stage
LongInputs ==
    { [k \in 1..(MaxPages + 1) |-> PageAt(k, c[k].Title, c[k].Text)] :
        c \in [1..(MaxPages + 1) -> Catalog] }

\* flag.Int("workers", 1, ...) accepts any integer; the loop of Start (line 124)
\* starts no worker for a count of zero or less
NoWorkers == {-1, 0}

\* A serialization that recomputes the checksum from the text it writes
MarshalRehashed(pg, indent) ==
    [indent |-> indent, Title |-> pg.Title, Ns |-> pg.Ns, ID |-> pg.ID,
     Redirect |-> pg.Redirect, Sha1 |-> Sha1Of(pg.Text), Text |-> pg.Text]
\* xml.Marshal / xml.MarshalIndent: the serialized page.  The text is innerxml
\* and is written as it is; indent records which of the two calls produced it.
Marshal(pg, indent) ==
    [indent |-> indent, Title |-> pg.Title, Ns |-> pg.Ns, ID |-> pg.ID,
     Redirect |-> pg.Redirect, Sha1 |-> pg.Sha1, Text |-> pg.Text]
NoText == Marshal(NoPage, FALSE)

\* line 192: strings.Replace(string(text), "&#xA;", "", -1)
StripNewlines(item) == [item EXCEPT !.Text = ReplaceAll(item.Text, NEWLINE_ENTITY, <<>>)]

\* A find that reports every title as seen
findAlways(slice, val) == TRUE

\* find (lines 217-224)
find(slice, val) == \E k \in 1..Len(slice) : slice[k] = val

\* ------------------------------------------------------------------ state
VARIABLES
    input,          \* the pages of the input file, in order
    workerCount,    \* Worker.workerCount
    script,         \* what the executable at Worker.ParseScript computes
    pc,             \* where the main goroutine is (main, Start, startReader)
    i,              \* Start's loop counter: workers spawned so far
    pos,            \* the decoder's position: pages consumed so far
    p,              \* startReader's p, the page being pushed
    seen,           \* the package variable seen
    InPageClosed,   \* close(w.InPage) has run
    OutTextClosed,  \* close(w.OutText) has run
    wgV,            \* the WaitGroup's counter
    wgW,            \* the WaitGroup's waiter count
    sema,           \* the WaitGroup's semaphore
    wpc,            \* where each worker goroutine is
    wp,             \* each startWorker's p
    wout,           \* each startWorker's output
    wrPc,           \* where the writer goroutine is
    text,           \* startWriter's text
    file,           \* what has been written to the output file
    proc,           \* the process: running, panicked or exited
    fault,          \* the fatal error that was hit, if any
    pushed,         \* history: the pages sent on InPage, in order
    execd,          \* history: IDs of the pages the script was run for
    failed,         \* history: IDs of the pages the script failed for
    recvd,          \* history: what the writer received from OutText, in order
    decodeErr       \* history: decoder.Token returned an error

vars == <<input, workerCount, script, pc, i, pos, p, seen, InPageClosed, OutTextClosed,
          wgV, wgW, sema, wpc, wp, wout, wrPc, text, file, proc, fault,
          pushed, execd, failed, recvd, decodeErr>>

config == <<input, workerCount, script>>
mainVars == <<pc, i, pos, p, seen>>
wgVars == <<wgV, wgW, sema>>
workerVars == <<wpc, wp, wout>>
writerVars == <<wrPc, text, file>>
history == <<pushed, execd, failed, recvd, decodeErr>>

WorkerIds == 1..MaxWorkers
Workers == 1..workerCount

Chunk(kind, item) == [kind |-> kind, item |-> item]
head == Chunk("head", NoText)
newline == Chunk("nl", NoText)
trailer == Chunk("trailer", NoText)

\* NewWorker (lines 110-120) and the package variables, before main calls Start
Init ==
    /\ \/ /\ input \in Inputs
          /\ workerCount \in NoWorkers \cup 1..MaxWorkers
          /\ script = "rewrite"
       \/ /\ input \in LongInputs
          /\ workerCount = 1
          /\ script = "rewrite"
       \/ /\ input \in TextInputs
          /\ workerCount = 1
          /\ script \in Scripts
    /\ pc = "spawn"
    /\ i = 0
    /\ pos = 0
    /\ p = NoPage
    /\ seen = <<>>
    /\ InPageClosed = FALSE
    /\ OutTextClosed = FALSE
    /\ wgV = 0
    /\ wgW = 0
    /\ sema = 0
    /\ wpc = [w \in WorkerIds |-> "idle"]
    /\ wp = [w \in WorkerIds |-> NoPage]
    /\ wout = [w \in WorkerIds |-> NoText]
    /\ wrPc = "idle"
    /\ text = NoText
    /\ file = <<>>
    /\ proc = "running"
    /\ fault = "none"
    /\ pushed = <<>>
    /\ execd = {}
    /\ failed = {}
    /\ recvd = <<>>
    /\ decodeErr = FALSE

\* An error that is recorded while the process goes on
PanicLogOnly(kind) == proc' = proc /\ fault' = kind
\* panic(err), or a panic raised by the runtime: the whole process dies
Panic(kind) == proc' = "panicked" /\ fault' = kind
NoPanic == UNCHANGED <<proc, fault>>

Running == proc = "running"

\* ------------------------------------------------ main goroutine: Start
\* lines 124-127: go w.startWorker(), once per loop iteration
StartSpawnWorker ==
    /\ Running /\ pc = "spawn" /\ i < workerCount
    /\ i' = i + 1
    /\ wpc' = [wpc EXCEPT ![i + 1] = "add"]
    /\ UNCHANGED <<config, pc, pos, p, seen, InPageClosed, OutTextClosed, wgVars,
                   wp, wout, writerVars, proc, fault, history>>

\* line 129: go w.startWriter(); line 130 then calls startReader
StartSpawnWriter ==
    /\ Running /\ pc = "spawn" /\ i >= workerCount
    /\ wrPc' = "create"
    /\ pc' = "open"
    /\ UNCHANGED <<config, i, pos, p, seen, InPageClosed, OutTextClosed, wgVars,
                   workerVars, text, file, proc, fault, history>>

\* ------------------------------------------ main goroutine: startReader
\* lines 139-144: os.Open, which succeeds or panics
ReaderOpen ==
    /\ Running /\ pc = "open"
    /\ \/ pc' = "token" /\ NoPanic
       \/ pc' = pc /\ Panic("open")
    /\ UNCHANGED <<config, i, pos, p, seen, InPageClosed, OutTextClosed, wgVars,
                   workerVars, writerVars, history>>

\* lines 146-163: the next page element is decoded and looked up in seen; tokens
\* that are no page start are skipped.  At the end of the input t is nil.
ReaderToken ==
    /\ Running /\ pc = "token"
    /\ IF pos >= Len(input)
       THEN /\ pc' = "closeIn"
            /\ UNCHANGED <<pos, p>>
       ELSE /\ pos' = pos + 1
            /\ p' = input[pos + 1]
            /\ pc' = IF find(seen, input[pos + 1].Title) THEN "token" ELSE "push"
    /\ UNCHANGED <<config, i, seen, InPageClosed, OutTextClosed, wgVars,
                   workerVars, writerVars, proc, fault, history>>

\* A startReader that treats a token error as fatal
ReaderTokenErrorPanics ==
    /\ Running /\ pc = "token"
    /\ pc' = pc
    /\ Panic("decode")
    /\ decodeErr' = TRUE
    /\ UNCHANGED <<config, i, pos, p, seen, InPageClosed, OutTextClosed, wgVars,
                   workerVars, writerVars, pushed, execd, failed, recvd>>

\* lines 147-150: decoder.Token fails (t is nil, the error is dropped): break
ReaderTokenError ==
    /\ Running /\ pc = "token"
    /\ pc' = "closeIn"
    /\ decodeErr' = TRUE
    /\ UNCHANGED <<config, i, pos, p, seen, InPageClosed, OutTextClosed, wgVars,
                   workerVars, writerVars, proc, fault, pushed, execd, failed, recvd>>

\* A push that does not wait for the worker to come back to its receive
ReaderPushNoWait(w) ==
    /\ Running /\ pc = "push" /\ wpc[w] \in {"recv", "got", "exec", "send"}
    /\ wp' = [wp EXCEPT ![w] = p]
    /\ wpc' = [wpc EXCEPT ![w] = "got"]
    /\ pushed' = Append(pushed, p)
    /\ pc' = "token"
    /\ UNCHANGED <<config, i, pos, p, seen, InPageClosed, OutTextClosed, wgVars,
                   wout, writerVars, proc, fault, execd, failed, recvd, decodeErr>>

\* line 165 meeting line 231: w.InPage <- &p is received by a worker in its range
ReaderPush(w) ==
    /\ Running /\ pc = "push" /\ wpc[w] = "recv"
    /\ wp' = [wp EXCEPT ![w] = p]
    /\ wpc' = [wpc EXCEPT ![w] = "got"]
    /\ pushed' = Append(pushed, p)
    /\ pc' = "token"
    /\ UNCHANGED <<config, i, pos, p, seen, InPageClosed, OutTextClosed, wgVars,
                   wout, writerVars, proc, fault, execd, failed, recvd, decodeErr>>

\* A startReader that returns without closing the handoff queue
ReaderCloseSkipped ==
    /\ Running /\ pc = "closeIn"
    /\ pc' = "wait"
    /\ UNCHANGED <<config, i, pos, p, seen, InPageClosed, OutTextClosed, wgVars,
                   workerVars, writerVars, proc, fault, history>>

\* line 171: close(w.InPage); startReader returns and Start goes on to wg.Wait
ReaderClose ==
    /\ Running /\ pc = "closeIn"
    /\ InPageClosed' = TRUE
    /\ pc' = "wait"
    /\ UNCHANGED <<config, i, pos, p, seen, OutTextClosed, wgVars,
                   workerVars, writerVars, proc, fault, history>>

\* A Start that goes on to close the result queue without waiting
StartNoWait ==
    /\ Running /\ pc = "wait"
    /\ pc' = "closeOut"
    /\ UNCHANGED <<config, i, pos, p, seen, InPageClosed, OutTextClosed, wgVars,
                   workerVars, writerVars, proc, fault, history>>

\* line 133: wg.Wait() reads the counter: zero returns at once, otherwise the
\* caller registers as a waiter and sleeps on the semaphore
StartWait ==
    /\ Running /\ pc = "wait"
    /\ IF wgV = 0
       THEN pc' = "closeOut" /\ UNCHANGED wgW
       ELSE pc' = "blocked" /\ wgW' = wgW + 1
    /\ UNCHANGED <<config, i, pos, p, seen, InPageClosed, OutTextClosed, wgV, sema,
                   workerVars, writerVars, proc, fault, history>>

\* line 133: the sleeping wg.Wait() is woken; it panics ("WaitGroup is reused
\* before previous Wait has returned") if the state is no longer zero
StartWake ==
    /\ Running /\ pc = "blocked" /\ sema > 0
    /\ sema' = sema - 1
    /\ IF wgV # 0 \/ wgW # 0
       THEN pc' = pc /\ Panic("waitgroup")
       ELSE pc' = "closeOut" /\ NoPanic
    /\ UNCHANGED <<config, i, pos, p, seen, InPageClosed, OutTextClosed, wgV, wgW,
                   workerVars, writerVars, history>>

\* lines 134-135: close(w.OutText), and Start returns
StartClose ==
    /\ Running /\ pc = "closeOut"
    /\ OutTextClosed' = TRUE
    /\ pc' = "returned"
    /\ UNCHANGED <<config, i, pos, p, seen, InPageClosed, wgVars,
                   workerVars, writerVars, proc, fault, history>>

\* lines 297-298: w.Start() was main's last statement; main returns and the
\* process exits, whatever the other goroutines are doing
MainExit ==
    /\ Running /\ pc = "returned"
    /\ proc' = "exited"
    /\ UNCHANGED <<config, mainVars, InPageClosed, OutTextClosed, wgVars,
                   workerVars, writerVars, fault, history>>

MainStep ==
    \/ StartSpawnWorker
    \/ StartSpawnWriter
    \/ ReaderOpen
    \/ ReaderToken
    \/ ReaderTokenError
    \/ \E w \in Workers : ReaderPush(w)
    \/ ReaderClose
    \/ StartWait
    \/ StartWake
    \/ StartClose
    \/ MainExit

\* ------------------------------------------------ worker goroutines
\* The prefix test made on the page's own character data (Page.Text), which is
\* not the revision's text
IsRedirectOfPageText(pg) == HasPrefix(<<>>, REDIRECT)
\* line 235: strings.HasPrefix(p.Revision.Text.Text, "#REDIRECT")
IsRedirect(pg) == HasPrefix(pg.Text, REDIRECT)

\* line 228: w.wg.Add(1), run by the goroutine itself once it is scheduled.  Add
\* panics ("WaitGroup misuse: Add called concurrently with Wait") when it takes
\* the counter from zero while a waiter is registered.
WorkerAdd(w) ==
    /\ Running /\ wpc[w] = "add"
    /\ wgV' = wgV + 1
    /\ IF wgW # 0 /\ wgV = 0
       THEN wpc' = wpc /\ Panic("waitgroup")
       ELSE wpc' = [wpc EXCEPT ![w] = "recv"] /\ NoPanic
    /\ UNCHANGED <<config, mainVars, InPageClosed, OutTextClosed, wgW, sema,
                   wp, wout, writerVars, history>>

\* lines 235-246: a redirect is marshalled as it is; any other page has its link
\* symbols swapped and the script is started with the text on its standard input
WorkerProcess(w) ==
    /\ Running /\ wpc[w] = "got"
    /\ IF IsRedirect(wp[w])
       THEN /\ \/ /\ wout' = [wout EXCEPT ![w] = Marshal(wp[w], FALSE)]
                  /\ wpc' = [wpc EXCEPT ![w] = "send"]
                  /\ NoPanic
               \/ /\ Panic("marshal")
                  /\ UNCHANGED <<wout, wpc>>
            /\ UNCHANGED <<wp, execd>>
       ELSE /\ wp' = [wp EXCEPT ![w].Text = EscapeLinks(wp[w].Text)]
            /\ execd' = execd \cup {wp[w].ID}
            /\ wpc' = [wpc EXCEPT ![w] = "exec"]
            /\ NoPanic
            /\ UNCHANGED wout
    /\ UNCHANGED <<config, mainVars, InPageClosed, OutTextClosed, wgVars,
                   writerVars, pushed, failed, recvd, decodeErr>>

\* lines 255-269: the script returned without error; its output has the link
\* symbols put back, becomes the page's text, and the page is marshalled
ExecOk(w) ==
    /\ Running /\ wpc[w] = "exec"
    /\ LET new == RestoreLinks(CombinedOutput(script, wp[w].Text))
           pg == [wp[w] EXCEPT !.Text = new]
       IN  /\ wp' = [wp EXCEPT ![w] = pg]
           /\ \/ /\ wout' = [wout EXCEPT ![w] = Marshal(pg, TRUE)]
                 /\ wpc' = [wpc EXCEPT ![w] = "send"]
                 /\ NoPanic
              \/ /\ Panic("marshal")
                 /\ UNCHANGED <<wout, wpc>>
    /\ UNCHANGED <<config, mainVars, InPageClosed, OutTextClosed, wgVars,
                   writerVars, history>>

\* lines 255-259: the script failed; the page is logged and skipped
ExecFail(w) ==
    /\ Running /\ wpc[w] = "exec"
    /\ failed' = failed \cup {wp[w].ID}
    /\ wpc' = [wpc EXCEPT ![w] = "recv"]
    /\ UNCHANGED <<config, mainVars, InPageClosed, OutTextClosed, wgVars,
                   wp, wout, writerVars, proc, fault, pushed, execd, recvd, decodeErr>>

\* lines 240/270 meeting line 190: w.OutText <- output is received by the writer's
\* range; a send on a closed channel panics
WorkerSend(w) ==
    /\ Running /\ wpc[w] = "send"
    /\ IF OutTextClosed
       THEN /\ Panic("send on closed channel")
            /\ UNCHANGED <<wpc, wrPc, text, recvd>>
       ELSE /\ wrPc = "recv"
            /\ text' = wout[w]
            /\ wrPc' = "nl"
            /\ recvd' = Append(recvd, wout[w])
            /\ wpc' = [wpc EXCEPT ![w] = "recv"]
            /\ NoPanic
    /\ UNCHANGED <<config, mainVars, InPageClosed, OutTextClosed, wgVars,
                   wp, wout, file, pushed, execd, failed, decodeErr>>

\* lines 231, 273 and 229: the range ends on the closed channel and the deferred
\* w.wg.Done() takes one off the counter; the Done that reaches zero with a
\* waiter registered still has to wake it
WorkerExit(w) ==
    /\ Running /\ wpc[w] = "recv" /\ InPageClosed
    /\ wgV' = wgV - 1
    /\ wpc' = [wpc EXCEPT ![w] = IF wgV = 1 /\ wgW > 0 THEN "release" ELSE "exited"]
    /\ UNCHANGED <<config, mainVars, InPageClosed, OutTextClosed, wgW, sema,
                   wp, wout, writerVars, proc, fault, history>>

\* line 229: the last Done resets the waiter count and releases the semaphore
WorkerRelease(w) ==
    /\ Running /\ wpc[w] = "release"
    /\ wgW' = 0
    /\ sema' = sema + wgW
    /\ wpc' = [wpc EXCEPT ![w] = "exited"]
    /\ UNCHANGED <<config, mainVars, InPageClosed, OutTextClosed, wgV,
                   wp, wout, writerVars, proc, fault, history>>

WorkerStep(w) ==
    \/ WorkerAdd(w)
    \/ WorkerProcess(w)
    \/ ExecOk(w)
    \/ ExecFail(w)
    \/ WorkerSend(w)
    \/ WorkerExit(w)
    \/ WorkerRelease(w)

\* ------------------------------------------------ writer goroutine
\* lines 177-181: os.Create, which succeeds (an empty file) or panics
WriterCreate ==
    /\ Running /\ wrPc = "create"
    /\ \/ wrPc' = "head" /\ file' = <<>> /\ NoPanic
       \/ UNCHANGED <<wrPc, file>> /\ Panic("create")
    /\ UNCHANGED <<config, mainVars, InPageClosed, OutTextClosed, wgVars,
                   workerVars, text, history>>

\* lines 184-187: the header is written
WriterHead ==
    /\ Running /\ wrPc = "head"
    /\ \/ wrPc' = "recv" /\ file' = Append(file, head) /\ NoPanic
       \/ UNCHANGED <<wrPc, file>> /\ Panic("write")
    /\ UNCHANGED <<config, mainVars, InPageClosed, OutTextClosed, wgVars,
                   workerVars, text, history>>

\* lines 192-198: the encoded newlines are taken out of the text received, and a
\* newline is written
WriterNewline ==
    /\ Running /\ wrPc = "nl"
    /\ text' = StripNewlines(text)
    /\ \/ wrPc' = "text" /\ file' = Append(file, newline) /\ NoPanic
       \/ UNCHANGED <<wrPc, file>> /\ Panic("write")
    /\ UNCHANGED <<config, mainVars, InPageClosed, OutTextClosed, wgVars,
                   workerVars, history>>

\* lines 201-204: the text is written, and the range waits for the next one
WriterText ==
    /\ Running /\ wrPc = "text"
    /\ \/ wrPc' = "recv" /\ file' = Append(file, Chunk("page", text)) /\ NoPanic
       \/ UNCHANGED <<wrPc, file>> /\ Panic("write")
    /\ UNCHANGED <<config, mainVars, InPageClosed, OutTextClosed, wgVars,
                   workerVars, text, history>>

\* A writer that does not wait for the channel to be closed before the closing tag
WriterTrailerEarly ==
    /\ Running /\ wrPc = "recv"
    /\ \/ wrPc' = "done" /\ file' = Append(file, trailer) /\ NoPanic
       \/ UNCHANGED <<wrPc, file>> /\ Panic("write")
    /\ UNCHANGED <<config, mainVars, InPageClosed, OutTextClosed, wgVars,
                   workerVars, text, history>>

\* lines 190 and 208-213: the range ends on the closed channel, the closing tag
\* is written and startWriter returns
WriterTrailer ==
    /\ Running /\ wrPc = "recv" /\ OutTextClosed
    /\ \/ wrPc' = "done" /\ file' = Append(file, trailer) /\ NoPanic
       \/ UNCHANGED <<wrPc, file>> /\ Panic("write")
    /\ UNCHANGED <<config, mainVars, InPageClosed, OutTextClosed, wgVars,
                   workerVars, text, history>>

WriterStep ==
    \/ WriterCreate
    \/ WriterHead
    \/ WriterNewline
    \/ WriterText
    \/ WriterTrailer

\* ------------------------------------------------ the Go runtime
\* A goroutine is asleep when it is blocked at a channel operation no other
\* goroutine meets, or in wg.Wait with nothing to wake it, or has returned
MainAsleep ==
    \/ pc = "push" /\ \A w \in Workers : wpc[w] # "recv"
    \/ pc = "blocked" /\ sema = 0
WorkerAsleep(w) ==
    \/ wpc[w] = "exited"
    \/ wpc[w] = "recv" /\ ~InPageClosed
    \/ wpc[w] = "send" /\ ~OutTextClosed /\ wrPc # "recv"
WriterAsleep ==
    \/ wrPc = "done"
    \/ wrPc = "recv" /\ ~OutTextClosed
AllAsleep == MainAsleep /\ WriterAsleep /\ \A w \in Workers : WorkerAsleep(w)

\* With every goroutine asleep the runtime ends the process ("fatal error: all
\* goroutines are asleep - deadlock!")
RuntimeDeadlock ==
    /\ Running /\ AllAsleep
    /\ Panic("deadlock")
    /\ UNCHANGED <<config, mainVars, InPageClosed, OutTextClosed, wgVars,
                   workerVars, writerVars, history>>

Next ==
    \/ MainStep
    \/ \E w \in Workers : WorkerStep(w)
    \/ WriterStep
    \/ RuntimeDeadlock

Spec == Init /\ [][Next]_vars

\* The Go scheduler runs every runnable goroutine eventually, an I/O call and
\* the script return eventually.
FairSpec ==
    /\ Spec
    /\ WF_vars(MainStep)
    /\ \A w \in WorkerIds : WF_vars(w \in Workers /\ WorkerStep(w))
    /\ WF_vars(WriterStep)

\* ================================================================ claims
Range(seq) == {seq[k] : k \in 1..Len(seq)}
IsPrefix(a, b) == Len(a) <= Len(b) /\ SubSeq(b, 1, Len(a)) = a

RECURSIVE IsSubseq(_, _)
IsSubseq(a, b) ==
    IF a = <<>> THEN TRUE
    ELSE IF b = <<>> THEN FALSE
    ELSE IF a[1] = b[1] THEN IsSubseq(Tail(a), Tail(b))
    ELSE IsSubseq(a, Tail(b))

\* The link delimiters of a text, left to right: "S" for each [[ and "E" for each ]]
RECURSIVE Delims(_)
Delims(s) ==
    IF Len(s) < 2 THEN <<>>
    ELSE IF s[1] = "[" /\ s[2] = "[" THEN <<"S">> \o Delims(SubSeq(s, 3, Len(s)))
    ELSE IF s[1] = "]" /\ s[2] = "]" THEN <<"E">> \o Delims(SubSeq(s, 3, Len(s)))
    ELSE Delims(Tail(s))

NoSentinel(s) == \A k \in 1..Len(s) : s[k] \notin {"S", "E"}
StartsAsRedirect(pg) == Len(pg.Text) >= 1 /\ pg.Text[1] = "R"
PagesWritten == {c.item : c \in {d \in Range(file) : d.kind = "page"}}
FatalErrors == {"open", "create", "write", "marshal"}
PassThrough == {"id", "rewrite", "clean"}

\* C1 (Uniqueness): no two pages pushed onto the handoff queue have the same
\* Title; of several input pages with one Title only the first is pushed.
C1_Uniqueness ==
    \A a, b \in 1..Len(pushed) : a # b => pushed[a].Title # pushed[b].Title

\* C2 (Failure isolation): a page whose script invocation failed is never sent
\* to the result queue and never written, and once the run has ended every
\* other pushed page has been received by the writer and written.
C2_FailureIsolation ==
    /\ \A it \in Range(recvd) \cup PagesWritten : it.ID \notin failed
    /\ \A w \in Workers : wpc[w] = "send" => wout[w].ID \notin failed
    /\ (proc = "exited" /\ failed # {}) =>
           \A pg \in Range(pushed) :
               pg.ID \notin failed =>
                   /\ \E it \in Range(recvd) : it.ID = pg.ID
                   /\ \E it \in PagesWritten : it.ID = pg.ID

\* C3 (Liveness), as what a finished run must have done: with at least one
\* worker and no fatal I/O error, a run that has ended has closed the handoff
\* queue, has every worker exited, has closed the result queue and has
\* returned from Start.
C3_Termination ==
    (workerCount >= 1 /\ proc # "running" /\ fault \notin FatalErrors) =>
        /\ InPageClosed
        /\ \A w \in Workers : wpc[w] = "exited"
        /\ OutTextClosed
        /\ pc = "returned"

\* C4 (Completion ordering): when Start has returned, the writer has written
\* every item it received, has written the trailer and has terminated.
C4_CompletionOrdering ==
    pc = "returned" =>
        /\ wrPc = "done"
        /\ \A it \in Range(recvd) : StripNewlines(it) \in PagesWritten
        /\ file # <<>> /\ file[Len(file)] = trailer

\* C5 (Redirect fidelity): for a page whose text starts with the redirect
\* marker the script is never run, and the text the worker emits (holds for
\* sending, or has sent) is the input text, placeholders not substituted.
C5_RedirectFidelity ==
    /\ \A id \in execd : ~StartsAsRedirect(input[id])
    /\ \A it \in Range(recvd) \cup {wout[w] : w \in {v \in Workers : wpc[v] = "send"}} :
           StartsAsRedirect(input[it.ID]) =>
               /\ it.Text = input[it.ID].Text
               /\ it.ID \notin execd
C5_Witness ==
    \E it \in Range(recvd) :
        /\ StartsAsRedirect(input[it.ID])
        /\ Delims(input[it.ID].Text) # <<>>
        /\ script = "rewrite"

\* C6 (Placeholder round-trip): the script is handed a text with no [[ and no
\* ]] left in it; with a script that passes the placeholders through, the link
\* delimiters of the input text are, in order, among those of the emitted text,
\* the identity script on a text without placeholders gives the input text
\* back, the rewriting script on such a text changes the plain text only and
\* leaves every bracket where it was, and "x[[x]]x" rewritten to "y<SPEC_START>y<SPEC_END>y" is emitted as
\* "y[[y]]y".
C6_PlaceholderRoundTrip ==
    /\ \A w \in Workers :
           (wpc[w] = "exec" /\ fault # "marshal") => Delims(wp[w].Text) = <<>>
    /\ \A it \in Range(recvd) :
           (~StartsAsRedirect(input[it.ID]) /\ script \in PassThrough) =>
               /\ IsSubseq(Delims(input[it.ID].Text), Delims(it.Text))
               /\ (script = "id" /\ NoSentinel(input[it.ID].Text)) =>
                      it.Text = input[it.ID].Text
               /\ (script = "rewrite" /\ NoSentinel(input[it.ID].Text)) =>
                      it.Text = MapText(input[it.ID].Text,
                                        [c \in Alphabet |-> IF c = "x" THEN <<"y">> ELSE <<c>>])
               /\ (script = "rewrite"
                      /\ input[it.ID].Text = <<"x", "[", "[", "x", "]", "]", "x">>) =>
                      it.Text = <<"y", "[", "[", "y", "]", "]", "y">>
C6_Witness ==
    \E it \in Range(recvd) :
        /\ script = "rewrite"
        /\ input[it.ID].Text = <<"x", "[", "[", "x", "]", "]", "x">>
        /\ it.Text # input[it.ID].Text
        /\ it.ID \in execd

\* C7 (Output framing): the file is a prefix of the header, then a newline and
\* the stripped text for each item the writer received, in the order received,
\* then the trailer; the trailer is in the file only once the result queue is
\* closed and everything received is written, and is the last thing written.
FramedRecords(items) ==
    [k \in 1..(2 * Len(items)) |->
        IF k % 2 = 1 THEN newline ELSE Chunk("page", StripNewlines(items[k \div 2]))]
C7_OutputFraming ==
    /\ IsPrefix(file, <<head>> \o FramedRecords(recvd) \o <<trailer>>)
    /\ trailer \in Range(file) =>
           /\ OutTextClosed
           /\ file = <<head>> \o FramedRecords(recvd) \o <<trailer>>
C7_Witness ==
    /\ Len(recvd) = 2
    /\ recvd[1].ID = 2
    /\ file = <<head>> \o FramedRecords(recvd) \o <<trailer>>

\* C8 (Metadata frame): every field of an emitted record other than the text
\* is the one decoded from the input: Title, Ns, ID, Redirect and Sha1; Sha1 is
\* the input's also when the text was changed.
C8_MetadataFrame ==
    \A it \in Range(recvd) \cup {wout[w] : w \in {v \in Workers : wpc[v] = "send"}} :
        \E k \in 1..Len(input) :
            /\ it.ID = input[k].ID
            /\ it.Title = input[k].Title
            /\ it.Ns = input[k].Ns
            /\ it.Redirect = input[k].Redirect
            /\ it.Sha1 = input[k].Sha1
C8_Witness ==
    \E it \in Range(recvd) :
        /\ it.Text # input[it.ID].Text
        /\ it.Sha1 = input[it.ID].Sha1
        /\ it.Sha1 # Sha1Of(it.Text)

\* C9 (Fatal errors abort the run): a step that hits a fatal error (open,
\* create, write, marshal) leaves the process panicked, and from a panicked
\* process no goroutine takes a step.
C9_FatalAbort ==
    [][/\ fault' \in FatalErrors => proc' = "panicked"
       /\ proc = "panicked" => UNCHANGED vars]_vars
C9_Witness ==
    /\ proc = "panicked"
    /\ fault = "write"
    /\ pc \in {"token", "push"}
    /\ \E w \in Workers : wpc[w] = "exec"
    /\ wrPc = "text"

\* C10 (Barrier): when the result queue is closed, every worker Start spawned
\* has exited.
C10_Barrier ==
    OutTextClosed => \A w \in Workers : wpc[w] = "exited"

Holding(w) == wpc[w] \in {"got", "exec", "send"}
IDsOf(seq) == [k \in 1..Len(seq) |-> seq[k].ID]
FilePages == SelectSeq(file, LAMBDA c : c.kind = "page")
WrittenIDs == [k \in 1..Len(FilePages) |-> FilePages[k].item.ID]
NotFailed(id) == id \notin failed
Once(seq) == \A a, b \in 1..Len(seq) : a # b => seq[a] # seq[b]

\* C11 (Dedup gate state): in every state the titles held in seen are exactly
\* the titles of the pages pushed onto the handoff queue so far.
C11_SeenIsAccepted ==
    Range(seen) = {pg.Title : pg \in Range(pushed)}

\* C12 (Exactly-once handling): a pushed page is held by at most one worker, no
\* page is received by the writer or written twice, what the writer receives
\* was pushed and did not fail, and when the run has ended the pages written
\* are the pushed pages less those whose script failed.
C12_ExactlyOnce ==
    /\ \A v, w \in Workers : (v # w /\ Holding(v) /\ Holding(w)) => wp[v].ID # wp[w].ID
    /\ Once(IDsOf(recvd))
    /\ Once(WrittenIDs)
    /\ \A id \in Range(IDsOf(recvd)) : id \in Range(IDsOf(pushed)) /\ id \notin failed
    /\ proc = "exited" =>
           Range(WrittenIDs) = {id \in Range(IDsOf(pushed)) : id \notin failed}

\* C13 (Hung script stalls the run): for as long as a script invocation has not
\* returned, the worker making it has not exited, the WaitGroup counter is not
\* zero, the result queue is not closed, the trailer is not written and Start
\* has not returned, whatever the reader and the other workers have done.
C13_HungScriptStalls ==
    (\E w \in Workers : wpc[w] = "exec") =>
        /\ wgV >= 1
        /\ ~OutTextClosed
        /\ trailer \notin Range(file)
        /\ pc \notin {"closeOut", "returned"}
        /\ proc # "exited"
C13_Witness ==
    /\ workerCount = 2
    /\ wpc[1] = "exec"
    /\ wpc[2] = "exited"
    /\ InPageClosed
    /\ pc = "blocked"
    /\ wrPc = "recv"
    /\ Len(recvd) = 1
    /\ proc = "running"

\* ------------------------------------------------------------------ C14
\* The Coordinator's phase as the two queues show it
Phase ==
    IF OutTextClosed THEN "Done" ELSE IF InPageClosed THEN "Draining" ELSE "Running"
Forward ==
    { <<"Running", "Running">>, <<"Running", "Draining">>, <<"Draining", "Draining">>,
      <<"Draining", "Done">>, <<"Done", "Done">> }

\* C14: the run only moves forward through Running, Draining, Done.  The
\* handoff queue is closed once, by the Decoder in its closing step, after the
\* last token it reads; the result queue is closed once, by Start in its closing
\* step, in a state where the handoff queue is already closed; a closed queue
\* stays closed, the closing steps are never reached again, and nothing is
\* pushed onto the handoff queue once it is closed.
C14_PhaseOrdering ==
    [][ /\ <<Phase, Phase'>> \in Forward
        /\ (~InPageClosed /\ InPageClosed') =>
               /\ pc = "closeIn" /\ pc' = "wait"
               /\ pos = Len(input) \/ decodeErr
               /\ ~OutTextClosed /\ ~OutTextClosed'
        /\ (~OutTextClosed /\ OutTextClosed') =>
               /\ pc = "closeOut" /\ pc' = "returned"
               /\ InPageClosed
        /\ InPageClosed =>
               /\ InPageClosed' /\ pushed' = pushed
               /\ pc' \notin {"spawn", "open", "token", "push", "closeIn"}
        /\ OutTextClosed => OutTextClosed' /\ pc' = "returned"
      ]_vars

C14_Witness ==
    /\ Phase = "Done" /\ InPageClosed /\ Len(pushed) = 2 /\ pc = "returned"
    /\ workerCount = 2 /\ \E w \in Workers : wpc[w] = "add"

\* ------------------------------------------------------------------ C15
\* C15: no worker ever sends on the closed result queue.  A worker that holds a
\* page registered with the wait group before it received the page, so while it
\* holds one the counter is at least 1, wg.Wait has not returned and the result
\* queue is open; once Start is past wg.Wait the handoff queue is closed and
\* every pushed page is sent or dropped, so a worker that registers late
\* obtains nothing.
C15_NoSendOnClosed ==
    /\ fault # "send on closed channel"
    /\ \A w \in Workers :
          Holding(w) =>
             /\ wgV >= 1
             /\ pc \notin {"closeOut", "returned"}
             /\ ~OutTextClosed
    /\ pc \in {"closeOut", "returned"} =>
          /\ InPageClosed
          /\ Len(pushed) = Len(recvd) + Cardinality(failed)

C15_Witness ==
    /\ OutTextClosed /\ workerCount = 2 /\ wpc[1] = "exited" /\ wpc[2] = "recv"
    /\ wgV = 1 /\ Len(recvd) = 2 /\ ~Holding(2) /\ proc = "running"

\* ------------------------------------------------------------------ C16
\* Pages accepted by the Decoder (pushed, or held for the push) and neither
\* written to the output nor dropped
Accepted == Len(pushed) + (IF pc = "push" THEN 1 ELSE 0)
InFlight == Accepted - Len(FilePages) - Cardinality(failed)
HeldByWriter == IF wrPc \in {"nl", "text"} THEN 1 ELSE 0
HeldByWorkers == Cardinality({w \in Workers : Holding(w)})

\* C16: the pages in flight are the one the Decoder is blocked pushing, one per
\* worker that holds a page, and the one the Writer holds: at most
\* workerCount + 2.  Every pushed page is held by one worker, or was sent to the
\* Writer, or was dropped: no worker holds two.
C16_Backpressure ==
    /\ InFlight = (IF pc = "push" THEN 1 ELSE 0) + HeldByWorkers + HeldByWriter
    /\ InFlight <= workerCount + 2
    /\ Len(pushed) = Len(recvd) + Cardinality(failed) + HeldByWorkers

C16_Witness ==
    /\ workerCount = 1 /\ InFlight = workerCount + 2
    /\ pc = "push" /\ Holding(1) /\ HeldByWriter = 1

\* ------------------------------------------------------------------ C17
\* The accepted pages whose transformation did not fail, in input order
Survivors == SelectSeq(IDsOf(pushed), NotFailed)

\* C17: with one worker, the pages written when the run has ended are exactly
\* the accepted pages that did not fail, in input order.
C17_SingleWorkerOrder ==
    (workerCount = 1 /\ proc = "exited") => WrittenIDs = Survivors

\* What one worker does keep: the pages written so far are, in order, a prefix
\* of the pages it received and did not drop
SingleWorkerPrefix ==
    workerCount = 1 => IsPrefix(WrittenIDs, SelectSeq(IDsOf(pushed), LAMBDA id : id \in Range(IDsOf(recvd))))
\* Two workers can write two pages in the opposite order from the input
NeverReversed ==
    ~(\E a, b \in 1..Len(WrittenIDs) : a < b /\ WrittenIDs[a] > WrittenIDs[b])

\* ------------------------------------------------------------------ C18
\* C18: a failing token read does what the end of the input does: the Decoder
\* goes to close the handoff queue, and nothing else changes (no panic, no page
\* pushed or dropped).  After it the Decoder reads and pushes no more, the
\* handoff queue is closed by the Decoder's next step, and the error is never
\* recorded as a fault.
C18_DecodeErrorIsEndOfInput ==
    [][ /\ (~decodeErr /\ decodeErr') =>
               /\ pc = "token" /\ pc' = "closeIn"
               /\ UNCHANGED <<config, i, pos, p, seen, InPageClosed, OutTextClosed, wgVars,
                              workerVars, writerVars, proc, fault, pushed, execd, failed, recvd>>
        /\ decodeErr =>
               /\ decodeErr' /\ pos' = pos /\ pushed' = pushed
               /\ pc' \in {"closeIn", "wait", "blocked", "closeOut", "returned"}
               /\ pc = "closeIn" => (pc' = "closeIn" \/ (pc' = "wait" /\ InPageClosed'))
               /\ fault' \notin {"open", "decode"}
      ]_vars

C18_Witness ==
    /\ decodeErr /\ pos < Len(input) /\ Len(pushed) = 1
    /\ proc = "exited" /\ fault = "none" /\ Phase = "Done"
    /\ WrittenIDs = IDsOf(pushed) /\ trailer \in Range(file)

\* ------------------------------------------------------------------ C19
\* C19: with a worker count of zero or less no worker is ever started.  With
\* at least one record in the input (and the tokens read without error) the
\* Decoder reaches the push of the first record and never takes another step:
\* the handoff queue and the result queue stay open and Start does not return.
\* With no record in the input the main goroutine is never blocked, it goes
\* through both closes, and Start returns.
C19_ZeroWorkersDeadlock ==
    /\ [](workerCount <= 0 =>
            /\ \A w \in WorkerIds : wpc[w] = "idle"
            /\ (Len(input) >= 1 /\ ~decodeErr) =>
                   /\ ~InPageClosed /\ ~OutTextClosed
                   /\ pc \in {"spawn", "open", "token", "push"}
            /\ pc = "push" => pos = 1 /\ ~ENABLED MainStep
            /\ fault = "deadlock" => pc = "push"
            /\ (Len(input) = 0 /\ proc = "running") =>
                   /\ pc \notin {"push", "blocked"}
                   /\ ENABLED MainStep)
    /\ [][(workerCount <= 0 /\ pc = "push") => pc' = "push"]_vars

C19_Witness ==
    /\ workerCount <= 0 /\ Len(input) >= 1 /\ pc = "push" /\ wrPc = "recv"
    /\ file = <<head>> /\ Len(pushed) = 0 /\ proc = "panicked" /\ fault = "deadlock"

\* Every goroutine is asleep exactly when no goroutine has a step
AsleepIsStuck ==
    Running =>
        (AllAsleep <=> ~ENABLED (MainStep \/ (\E w \in Workers : WorkerStep(w)) \/ WriterStep))
\* The runtime finds every goroutine asleep only without workers
DeadlockOnlyWithoutWorkers == fault = "deadlock" => workerCount <= 0
\* Start returns on an empty input without workers
NoReturnWithoutWorkers == ~(workerCount <= 0 /\ Len(input) = 0 /\ pc = "returned" /\ OutTextClosed)

====
